---------------------------- MODULE Spec2Model ----------------------------
(***************************************************************************)
(* Model of the management command setup_service                           *)
(* (safe_transaction_service/history/management/commands/setup_service.py).*)
(*                                                                         *)
(* The command wipes the periodic tasks of the service's namespace,        *)
(* recreates them from the declared list TASKS, asks the chain client for  *)
(* the network id, and then get-or-creates the declared master copies and  *)
(* proxy factories of that network.                                        *)
(*                                                                         *)
(* Every database call and every chain-client call of the command is one   *)
(* step of the model (the command runs in autocommit mode: there is no     *)
(* transaction around handle()).  A string is a sequence of tokens, so     *)
(* that startswith / endswith are computed and not assumed.                *)
(***************************************************************************)
EXTENDS Integers, Sequences, FiniteSets, TLC

VARIABLES
    TASKS,                \* the declared tasks (a sequence of declarations)
    MASTER_COPIES,        \* network id -> sequence of <<address, block, version>>
    PROXY_FACTORIES,      \* network id -> sequence of <<address, block>>
    net_version,          \* what the chain client answers (w3.net.version)
    periodicTasks,        \* table PeriodicTask: set of rows
    intervalSchedules,    \* table IntervalSchedule: set of rows
    safeMasterCopies,     \* table SafeMasterCopy: address -> row
    proxyFactories,       \* table ProxyFactory: address -> row
    nextId,               \* next auto-increment primary key
    pc,                   \* position of the command
    idx,                  \* position in the loop being run
    interval_schedule,    \* local of create_task: id of the schedule row
    periodic_task,        \* local of create_task: id of the task row
    safe_master_copy,     \* local of _setup_safe_master_copies: the object in memory
    ethereum_network_id,  \* local of handle: the resolved network id
    stdout,               \* what the run wrote: counters of the lines, the warning
    saves,                \* number of save() calls of the run, per table
    run,                  \* number of runs started
    prevOK,               \* the run before this one completed
    pre,                  \* the tables as they were when this run started
    resolved,             \* per declaration of this run: the schedule id create_task got
    schedByCmd,           \* ids of the schedule rows this command created
    scheduler_view,       \* what the beat scheduler last read from PeriodicTask
    expected,             \* the stores a reference run ended with (none: {})
    mc_history            \* the MASTER_COPIES tables the runs were given

vars == <<TASKS, MASTER_COPIES, PROXY_FACTORIES, net_version, periodicTasks,
          intervalSchedules, safeMasterCopies, proxyFactories, nextId, pc, idx,
          interval_schedule, periodic_task, safe_master_copy,
          ethereum_network_id, stdout, saves, run, prevOK, pre, resolved, schedByCmd,
          scheduler_view, expected, mc_history>>

decls == <<TASKS, MASTER_COPIES, PROXY_FACTORIES, net_version>>
tables == <<periodicTasks, intervalSchedules, safeMasterCopies, proxyFactories>>
registries == <<safeMasterCopies, proxyFactories>>
locals == <<interval_schedule, periodic_task, safe_master_copy>>
\* what watches the command and is no part of it
watch == <<scheduler_view, expected, mc_history>>

-----------------------------------------------------------------------------
(* Bounds of the model *)

\* number of runs of the command in one behaviour
MaxRuns == 2
\* longest declared task list
MaxTasks == 2

None == "None"

-----------------------------------------------------------------------------
(* Strings *)

\* str.startswith
StartsWith(s, p) == Len(s) >= Len(p) /\ SubSeq(s, 1, Len(p)) = p

\* str.endswith
EndsWith(s, p) ==
    Len(s) >= Len(p) /\ SubSeq(s, Len(s) - Len(p) + 1, Len(s)) = p

\* the namespace of the service's task names
NS == <<"safe_transaction_service">>
\* the suffix of an L2 version
L2Suffix == <<"+L2">>

\* what a CharField stores when an integer is assigned to it
Str(n) == <<ToString(n)>>

-----------------------------------------------------------------------------
(* The declarations the runs are checked with *)

\* IntervalSchedule.SECONDS, MINUTES, DAYS
SECONDS == "seconds"
MINUTES == "minutes"
DAYS == "days"

Decl(name, description, interval, period, enabled) ==
    [name |-> name, description |-> description, interval |-> interval,
     period |-> period, enabled |-> enabled]

\* two declarations of the namespace with one interval, one outside of it
IndexInternalTxs ==
    Decl(NS \o <<".history.tasks.index_internal_txs_task">>,
         "Index Internal Txs", 13, SECONDS, FALSE)
IndexSafeEvents ==
    Decl(NS \o <<".history.tasks.index_safe_events_task">>,
         "Index Safe events (L2)", 13, SECONDS, TRUE)
Cleanup ==
    Decl(<<"other_app", ".tasks.cleanup_task">>, "Cleanup", 3, MINUTES, FALSE)

TaskDecls == {IndexInternalTxs, IndexSafeEvents, Cleanup}

\* the sequences over S of length n without repetition
RECURSIVE InjSeqs(_, _)
InjSeqs(S, n) ==
    IF n = 0 THEN {<<>>}
    ELSE UNION {{Append(q, x) : x \in S \ {q[k] : k \in 1..Len(q)}} :
                q \in InjSeqs(S, n - 1)}

\* the task lists: names are unique in a list (the caller's invariant)
TaskLists == UNION {InjSeqs(TaskDecls, n) : n \in 0..MaxTasks}

V111 == <<"1.1.1">>
V120 == <<"1.2.0">>
V130 == <<"1.3.0">>
V130L2 == <<"1.3.0", "+L2">>

\* the addresses of the source, and a master copy no table declares
MasterCopy130 == "0xd9Db270c1B5E3Bd161E8c8503c55cEABeE709552"
MasterCopy130L2 == "0x3E5c63644E683549055b9Be8653de26E0B4CD36E"
MasterCopy111 == "0x34CfAC646f301356fAa8B21e94227e3583Fe3F5F"
Factory130 == "0xa6B71E26C5e0845f74c812102Ca7114b6a896AB2"
Factory111 == "0x76E2cFc1F5Fa8F6a5b3fC4c8F4788F0116861F9B"

\* the tables of the source
SrcMasterCopies ==
    "7001" :> << <<MasterCopy130, 9242, V130>>, <<MasterCopy130L2, 9239, V130L2>> >>
SrcProxyFactories ==
    "7001" :> << <<Factory130, 9223>> >>
\* the table of the source with a second factory for its network
TwoProxyFactories ==
    "7001" :> << <<Factory130, 9223>>, <<Factory111, 9100>> >>
\* a table that knows a second network by its factory only
AltProxyFactories ==
    "5" :> << <<Factory130, 9223>> >>

Networks == {"7001", "5", "1"}

-----------------------------------------------------------------------------
(* The rows the tables may hold before the first run *)

TaskRow(id, task, name, interval, enabled) ==
    [id |-> id, task |-> task, name |-> name, interval |-> interval,
     enabled |-> enabled]

ScheduleRow(id, every, period) == [id |-> id, every |-> every, period |-> period]

MasterCopyRow(initial, tx, version, l2) ==
    [initial_block_number |-> initial, tx_block_number |-> tx,
     version |-> version, l2 |-> l2]

FactoryRow(initial, tx) ==
    [initial_block_number |-> initial, tx_block_number |-> tx]

\* a schedule no declaration asks for, which the old tasks use
OldSchedule == ScheduleRow(3, 30, DAYS)
\* the schedule (13, seconds), and a second row of it
Schedule13 == ScheduleRow(1, 13, SECONDS)
Schedule13Dup == ScheduleRow(2, 13, SECONDS)

\* a stale row of a declared task of the namespace
StaleInternalTxs ==
    TaskRow(1, IndexInternalTxs.name, "Index Internal Txs (old)", 3, TRUE)
\* a row of the namespace that no declaration names
RemovedTask ==
    TaskRow(2, NS \o <<".history.tasks.removed_task">>, "Removed", 3, TRUE)
\* a row with the key of the declaration outside the namespace
OldCleanup == TaskRow(3, Cleanup.name, "Cleanup (old)", 3, TRUE)
\* a second row with that key, under the label of a declared task
DupCleanup == TaskRow(4, Cleanup.name, "Index Safe events (L2)", 3, TRUE)
\* a row of another application
ReportTask == TaskRow(5, <<"other_app", ".tasks.report_task">>, "Report", 3, TRUE)

\* the master copy of 1.3.0 as stored: in step with the source's table, or not
MasterCopy130Rows ==
    {MasterCopyRow(9242, 9300, V130, FALSE),    \* as declared, indexed further
     MasterCopyRow(9000, 9100, V120, FALSE),    \* version and block differ
     MasterCopyRow(9242, 9300, V120, FALSE),    \* version differs
     MasterCopyRow(9000, 9100, V130, FALSE),    \* block differs
     MasterCopyRow(9242, 9300, V130L2, TRUE)}   \* stored as an L2 master copy
\* the L2 master copy as stored under the version without the suffix
MasterCopy130L2Rows == {MasterCopyRow(9239, 9260, V130, FALSE)}
\* the master copy no table declares
MasterCopy111Row == MasterCopyRow(8000, 8500, V111, FALSE)
\* the factory as stored: as declared, or with another block
Factory130Rows == {FactoryRow(9223, 9400), FactoryRow(9000, 9050)}

\* the tables with one of the rows at the address, and the table without it
Entries(address, rows) == {<<>>} \cup {address :> r : r \in rows}

MasterCopyTables ==
    {(MasterCopy111 :> MasterCopy111Row) @@ e1 @@ e2 :
        e1 \in Entries(MasterCopy130, MasterCopy130Rows),
        e2 \in Entries(MasterCopy130L2, MasterCopy130L2Rows)}

ProxyFactoryTables == Entries(Factory130, Factory130Rows)

TaskTables ==
    {{ReportTask} \cup S :
        S \in SUBSET {StaleInternalTxs, RemovedTask, OldCleanup, DupCleanup}}

ScheduleTables == {{OldSchedule} \cup S : S \in SUBSET {Schedule13, Schedule13Dup}}

Input(t, mc, pf, n, pt, is, smc, spf) ==
    [TASKS |-> t, MASTER_COPIES |-> mc, PROXY_FACTORIES |-> pf, net_version |-> n,
     periodicTasks |-> pt, intervalSchedules |-> is, safeMasterCopies |-> smc,
     proxyFactories |-> spf]

\* every task list against every task and schedule table, on the source's network
TaskInputs ==
    {Input(t, SrcMasterCopies, SrcProxyFactories, "7001", pt, is,
           (MasterCopy111 :> MasterCopy111Row)
               @@ (MasterCopy130 :> MasterCopyRow(9000, 9100, V120, FALSE)),
           <<>>) :
        t \in TaskLists, pt \in TaskTables, is \in ScheduleTables}

\* every registry table against every network, with one task list
RegistryInputs ==
    {Input(<<IndexInternalTxs, Cleanup>>, SrcMasterCopies, pf, n,
           {ReportTask, OldCleanup}, {OldSchedule}, smc, spf) :
        pf \in {SrcProxyFactories, TwoProxyFactories, AltProxyFactories},
        n \in Networks,
        smc \in MasterCopyTables, spf \in ProxyFactoryTables}

\* every task list against the empty store
EmptyInputs ==
    {Input(t, SrcMasterCopies, SrcProxyFactories, "7001", {}, {}, <<>>, <<>>) :
        t \in TaskLists}

Inputs == TaskInputs \cup RegistryInputs \cup EmptyInputs

-----------------------------------------------------------------------------
(* The state after construction: the command has not run *)

\* the tables, as one value
Tables ==
    [periodicTasks |-> periodicTasks, intervalSchedules |-> intervalSchedules,
     safeMasterCopies |-> safeMasterCopies, proxyFactories |-> proxyFactories]

NoOutput == [created |-> 0, already |-> 0, warning |-> FALSE]
NoSaves == [task |-> 0, master_copy |-> 0]

\* the first primary keys the tables hand out
FirstIds == [task |-> 10, schedule |-> 10]

\* what a scheduler gets of a set of task rows: the tasks of the namespace,
\* each with its label and its enabled flag
SchedulerRows(rows) ==
    {[task |-> r.task, name |-> r.name, enabled |-> r.enabled] :
        r \in {q \in rows : StartsWith(q.task, NS)}}

\* the command has not run, the declarations and tables are one of the inputs
InitFrom(inputs) ==
    /\ \E in \in inputs :
        /\ TASKS = in.TASKS
        /\ MASTER_COPIES = in.MASTER_COPIES
        /\ PROXY_FACTORIES = in.PROXY_FACTORIES
        /\ net_version = in.net_version
        /\ periodicTasks = in.periodicTasks
        /\ intervalSchedules = in.intervalSchedules
        /\ safeMasterCopies = in.safeMasterCopies
        /\ proxyFactories = in.proxyFactories
        /\ pre = [periodicTasks |-> in.periodicTasks,
                  intervalSchedules |-> in.intervalSchedules,
                  safeMasterCopies |-> in.safeMasterCopies,
                  proxyFactories |-> in.proxyFactories]
        /\ scheduler_view = [run |-> 0, pc |-> "idle",
                             rows |-> SchedulerRows(in.periodicTasks)]
        /\ mc_history = {in.MASTER_COPIES}
    /\ nextId = FirstIds
    /\ pc = "idle"
    /\ idx = 0
    /\ interval_schedule = None
    /\ periodic_task = None
    /\ safe_master_copy = None
    /\ ethereum_network_id = None
    /\ stdout = NoOutput
    /\ saves = NoSaves
    /\ run = 0
    /\ prevOK = FALSE
    /\ resolved = <<>>
    /\ schedByCmd = {}
    /\ expected = {}

Init == InitFrom(Inputs)

-----------------------------------------------------------------------------
(* What the database calls of the command compute *)

\* the delete without its filter: every task row is removed
WipeAll == periodicTasks

\* the filter without its rows: the wipe removes nothing
WipeNothing == {}

\* the filter narrowed to the declared names: only rows about to be recreated
WipeDeclaredOnly ==
    {r \in periodicTasks :
        StartsWith(r.task, NS) /\ \E i \in 1..Len(TASKS) : TASKS[i].name = r.task}

\* PeriodicTask.objects.filter(task__startswith="safe_transaction_service")
WipeSet == {r \in periodicTasks : StartsWith(r.task, NS)}

\* create in place of get_or_create: no row is looked up
ScheduleGetNothing(every, period) == {}

\* the rows IntervalSchedule.objects.get_or_create looks up
ScheduleGet(every, period) ==
    {r \in intervalSchedules : r.every = every /\ r.period = period}

\* create in place of get_or_create: no row is looked up
TaskGetNothing(name) == {}

\* the rows PeriodicTask.objects.get_or_create looks up
TaskGet(name) == {r \in periodicTasks : r.task = name}

\* the defaults without the enabled flag: the column's default is True
TaskDefaultsEnabled(d, schedule) ==
    [name |-> d.description, interval |-> schedule, enabled |-> TRUE]

\* the defaults of PeriodicTask.objects.get_or_create
TaskDefaults(d, schedule) ==
    [name |-> d.description, interval |-> schedule, enabled |-> d.enabled]

\* the row create_task saves when it was not created
TaskUpdated(row, d, schedule) ==
    [row EXCEPT !.name = d.description, !.interval = schedule,
                !.enabled = d.enabled]

\* PeriodicTask.name is unique: a row other than the row id (0: any row) holds
\* the name
NameTaken(name, id) == \E r \in periodicTasks : r.name = name /\ r.id # id

\* defaults without the test of the suffix: no created row is an L2 row
McDefaultsNoL2(initial_block_number, version) ==
    MasterCopyRow(initial_block_number, initial_block_number, version, FALSE)

\* defaults without tx_block_number: the created row starts at block 0
McDefaultsUnsynced(initial_block_number, version) ==
    MasterCopyRow(initial_block_number, 0, version, EndsWith(version, L2Suffix))

\* the defaults of SafeMasterCopy.objects.get_or_create
McDefaults(initial_block_number, version) ==
    MasterCopyRow(initial_block_number, initial_block_number, version,
                  EndsWith(version, L2Suffix))

\* the test that guards the save of a master copy
McDrift(obj, initial_block_number, version) ==
    \/ obj.version # version
    \/ obj.initial_block_number # initial_block_number

\* the first assignment alone: version is left holding the block number
McAssignedOnce(obj, initial_block_number, version) ==
    [obj EXCEPT !.version = Str(initial_block_number)]

\* the two assignments before the save: both are to version
McAssigned(obj, initial_block_number, version) ==
    LET o1 == [obj EXCEPT !.version = Str(initial_block_number)]
    IN  [o1 EXCEPT !.version = version]

\* a save that derives the L2 flag from the version again
McSavedWithL2(row, obj) ==
    [row EXCEPT !.initial_block_number = obj.initial_block_number,
                !.version = obj.version,
                !.l2 = EndsWith(obj.version, L2Suffix)]

\* save(update_fields=["initial_block_number", "version"]) of obj over row
McSaved(row, obj) ==
    [row EXCEPT !.initial_block_number = obj.initial_block_number,
                !.version = obj.version]

\* the defaults of ProxyFactory.objects.get_or_create
PfDefaults(initial_block_number) ==
    FactoryRow(initial_block_number, initial_block_number)

\* update_or_create in place of get_or_create: a stored factory is overwritten
PfUpdateOrCreated(table, address, initial_block_number) ==
    IF address \in DOMAIN table
    THEN [table EXCEPT ![address] = PfDefaults(initial_block_number)]
    ELSE table @@ (address :> PfDefaults(initial_block_number))

\* the table after ProxyFactory.objects.get_or_create
PfGetOrCreated(table, address, initial_block_number) ==
    IF address \in DOMAIN table THEN table
    ELSE table @@ (address :> PfDefaults(initial_block_number))

\* ethereum_network_id in MASTER_COPIES, in PROXY_FACTORIES
InMasterCopies(id) == id \in DOMAIN MASTER_COPIES
InProxyFactories(id) == id \in DOMAIN PROXY_FACTORIES

\* an unknown network falls back on the list of network 7001
McListOrDefault(id) ==
    IF InMasterCopies(id) THEN MASTER_COPIES[id] ELSE MASTER_COPIES["7001"]

\* the loop stops after the first master copy of the list
McListHead(id) ==
    IF InMasterCopies(id) THEN SubSeq(MASTER_COPIES[id], 1, 1) ELSE <<>>

\* the lists the two loops run over: none when the network is not in the table
McList(id) == IF InMasterCopies(id) THEN MASTER_COPIES[id] ELSE <<>>
PfList(id) == IF InProxyFactories(id) THEN PROXY_FACTORIES[id] ELSE <<>>

\* the test that guards the warning
Warns(id) == ~(InMasterCopies(id) /\ InProxyFactories(id))

-----------------------------------------------------------------------------
(* Where the command goes next *)

\* after the master copies: the factories of the network, or the warning test
PfLoopPc(id, i) == IF i <= Len(PfList(id)) THEN "proxy_factory" ELSE "warning"

\* after the chain client answered: the master copies of the network, or on
McLoopPc(id, i) ==
    IF i <= Len(McList(id)) THEN "master_copy" ELSE PfLoopPc(id, 1)

\* the chain client is not asked: the registries follow the last task
TaskLoopPcNoResolve(i) ==
    IF i <= Len(TASKS) THEN "schedule" ELSE McLoopPc(ethereum_network_id, 1)

\* the task loop is left out: the chain client follows the wipe
TaskLoopPcSkip(i) == "resolve"

\* after the wipe and after each task: the next task, or the chain client
TaskLoopPc(i) == IF i <= Len(TASKS) THEN "schedule" ELSE "resolve"

NextTask ==
    /\ idx' = idx + 1
    /\ pc' = TaskLoopPc(idx + 1)

NextMasterCopy ==
    /\ pc' = McLoopPc(ethereum_network_id, idx + 1)
    /\ idx' = IF idx + 1 <= Len(McList(ethereum_network_id)) THEN idx + 1 ELSE 1

\* an exception leaves handle(): the tables stay as they are
Raise ==
    /\ pc' = "error"
    /\ UNCHANGED <<tables, nextId, idx, locals, stdout, saves, resolved, schedByCmd>>

-----------------------------------------------------------------------------
(* The steps of the command *)

\* the command is invoked
StartRun ==
    /\ pc \in {"idle", "done", "error"}
    /\ run < MaxRuns
    /\ run' = run + 1
    /\ prevOK' = (pc = "done")
    /\ pre' = Tables
    /\ pc' = "wipe"
    /\ idx' = 0
    /\ interval_schedule' = None
    /\ periodic_task' = None
    /\ safe_master_copy' = None
    /\ ethereum_network_id' = None
    /\ stdout' = NoOutput
    /\ saves' = NoSaves
    /\ resolved' = <<>>
    /\ UNCHANGED <<decls, watch, tables, nextId, schedByCmd>>

\* handle: the old tasks are removed
Wipe ==
    /\ pc = "wipe"
    /\ periodicTasks' = periodicTasks \ WipeSet
    /\ pc' = TaskLoopPc(1)
    /\ idx' = 1
    /\ UNCHANGED <<decls, watch, intervalSchedules, registries, nextId, locals,
                   ethereum_network_id, stdout, saves, run, prevOK, pre,
                   resolved, schedByCmd>>

\* create_task: IntervalSchedule.objects.get_or_create
ScheduleGetOrCreate ==
    /\ pc = "schedule"
    /\ LET d == TASKS[idx]
           found == ScheduleGet(d.interval, d.period)
       IN  IF Cardinality(found) > 1
           THEN \* MultipleObjectsReturned
                /\ Raise
           ELSE /\ IF found = {}
                   THEN /\ intervalSchedules' = intervalSchedules \cup
                              {ScheduleRow(nextId.schedule, d.interval, d.period)}
                        /\ interval_schedule' = nextId.schedule
                        /\ nextId' = [nextId EXCEPT !.schedule = @ + 1]
                        /\ schedByCmd' = schedByCmd \cup {nextId.schedule}
                   ELSE /\ interval_schedule' = (CHOOSE r \in found : TRUE).id
                        /\ UNCHANGED <<intervalSchedules, nextId, schedByCmd>>
                /\ resolved' = Append(resolved, interval_schedule')
                /\ pc' = "task"
                /\ UNCHANGED <<periodicTasks, registries, idx, periodic_task,
                               safe_master_copy, stdout, saves>>
    /\ UNCHANGED <<decls, watch, ethereum_network_id, run, prevOK, pre>>

\* create_task: PeriodicTask.objects.get_or_create, and the line handle writes
\* for a created task
TaskGetOrCreate ==
    /\ pc = "task"
    /\ LET d == TASKS[idx]
           found == TaskGet(d.name)
       IN  IF Cardinality(found) > 1
           THEN \* MultipleObjectsReturned
                /\ Raise
           ELSE IF found = {}
           THEN IF NameTaken(d.description, 0)
                THEN \* IntegrityError
                     /\ Raise
                ELSE /\ periodicTasks' = periodicTasks \cup
                           {[id |-> nextId.task, task |-> d.name]
                               @@ TaskDefaults(d, interval_schedule)}
                     /\ periodic_task' = nextId.task
                     /\ nextId' = [nextId EXCEPT !.task = @ + 1]
                     /\ stdout' = [stdout EXCEPT !.created = @ + 1]
                     /\ NextTask
                     /\ UNCHANGED <<intervalSchedules, registries,
                                    interval_schedule, safe_master_copy, saves,
                                    resolved, schedByCmd>>
           ELSE /\ periodic_task' = (CHOOSE r \in found : TRUE).id
                /\ pc' = "save"
                /\ UNCHANGED <<tables, nextId, idx, interval_schedule,
                               safe_master_copy, stdout, saves, resolved,
                               schedByCmd>>
    /\ UNCHANGED <<decls, watch, ethereum_network_id, run, prevOK, pre>>

\* create_task: the task was not created, its fields are set and saved; and the
\* line handle writes for it
TaskSave ==
    /\ pc = "save"
    /\ LET d == TASKS[idx]
           row == CHOOSE r \in periodicTasks : r.id = periodic_task
       IN  IF NameTaken(d.description, row.id)
           THEN \* IntegrityError
                /\ Raise
           ELSE /\ periodicTasks' = (periodicTasks \ {row}) \cup
                      {TaskUpdated(row, d, interval_schedule)}
                /\ saves' = [saves EXCEPT !.task = @ + 1]
                /\ stdout' = [stdout EXCEPT !.already = @ + 1]
                /\ NextTask
                /\ UNCHANGED <<intervalSchedules, registries, nextId, locals,
                               resolved, schedByCmd>>
    /\ UNCHANGED <<decls, watch, ethereum_network_id, run, prevOK, pre>>

\* handle: the chain client answers with the network id
Resolve ==
    /\ pc = "resolve"
    /\ ethereum_network_id' = net_version
    /\ pc' = McLoopPc(net_version, 1)
    /\ idx' = 1
    /\ UNCHANGED <<decls, watch, tables, nextId, locals, stdout, saves, run, prevOK,
                   pre, resolved, schedByCmd>>

\* handle: the chain client cannot be reached
ResolveFails ==
    /\ pc = "resolve"
    /\ Raise
    /\ UNCHANGED <<decls, watch, ethereum_network_id, run, prevOK, pre>>

\* _setup_safe_master_copies: SafeMasterCopy.objects.get_or_create and the test
MasterCopyGetOrCreate ==
    /\ pc = "master_copy"
    /\ LET m == McList(ethereum_network_id)[idx]
           address == m[1]
           table == IF address \in DOMAIN safeMasterCopies THEN safeMasterCopies
                    ELSE safeMasterCopies @@ (address :> McDefaults(m[2], m[3]))
       IN  /\ safeMasterCopies' = table
           /\ IF McDrift(table[address], m[2], m[3])
              THEN /\ safe_master_copy' = table[address]
                   /\ pc' = "master_copy_save"
                   /\ idx' = idx
              ELSE /\ safe_master_copy' = safe_master_copy
                   /\ NextMasterCopy
    /\ UNCHANGED <<decls, watch, periodicTasks, intervalSchedules, proxyFactories,
                   nextId, interval_schedule, periodic_task,
                   ethereum_network_id, stdout, saves, run, prevOK, pre,
                   resolved, schedByCmd>>

\* _setup_safe_master_copies: the assignments and the save
MasterCopySave ==
    /\ pc = "master_copy_save"
    /\ LET m == McList(ethereum_network_id)[idx]
           obj == McAssigned(safe_master_copy, m[2], m[3])
       IN  safeMasterCopies' =
               [safeMasterCopies EXCEPT ![m[1]] = McSaved(@, obj)]
    /\ saves' = [saves EXCEPT !.master_copy = @ + 1]
    /\ NextMasterCopy
    /\ UNCHANGED <<decls, watch, periodicTasks, intervalSchedules, proxyFactories,
                   nextId, locals, ethereum_network_id, stdout, run, prevOK,
                   pre, resolved, schedByCmd>>

\* _setup_safe_proxy_factories: ProxyFactory.objects.get_or_create
ProxyFactoryGetOrCreate ==
    /\ pc = "proxy_factory"
    /\ LET f == PfList(ethereum_network_id)[idx]
       IN  proxyFactories' = PfGetOrCreated(proxyFactories, f[1], f[2])
    /\ pc' = PfLoopPc(ethereum_network_id, idx + 1)
    /\ idx' = idx + 1
    /\ UNCHANGED <<decls, watch, periodicTasks, intervalSchedules, safeMasterCopies,
                   nextId, locals, ethereum_network_id, stdout, saves, run,
                   prevOK, pre, resolved, schedByCmd>>

\* handle: the warning, and the command returns
Warning ==
    /\ pc = "warning"
    /\ stdout' = [stdout EXCEPT !.warning = Warns(ethereum_network_id)]
    /\ pc' = "done"
    /\ UNCHANGED <<decls, watch, tables, nextId, idx, locals, ethereum_network_id,
                   saves, run, prevOK, pre, resolved, schedByCmd>>

Next ==
    \/ StartRun
    \/ Wipe
    \/ ScheduleGetOrCreate
    \/ TaskGetOrCreate
    \/ TaskSave
    \/ Resolve
    \/ ResolveFails
    \/ MasterCopyGetOrCreate
    \/ MasterCopySave
    \/ ProxyFactoryGetOrCreate
    \/ Warning

Spec == Init /\ [][Next]_vars

-----------------------------------------------------------------------------
(* A scheduler beside the command *)

\* the beat scheduler reads the periodic tasks, at any moment of a run
SchedulerReads ==
    /\ scheduler_view' = [run |-> run, pc |-> pc,
                          rows |-> SchedulerRows(periodicTasks)]
    /\ UNCHANGED <<decls, tables, nextId, pc, idx, locals, ethereum_network_id,
                   stdout, saves, run, prevOK, pre, resolved, schedByCmd,
                   expected, mc_history>>

NextWithScheduler ==
    \/ Next
    \/ SchedulerReads

SpecScheduler == Init /\ [][NextWithScheduler]_vars

-----------------------------------------------------------------------------
(* A run that is cut short, against the same run left alone *)

\* a task row as the data model has it: key, label, schedule, enabled
TaskFields(r) ==
    [task |-> r.task, name |-> r.name, interval |-> r.interval,
     enabled |-> r.enabled]

\* the four stores of a snapshot, the task rows without their primary keys
StoreView(t) ==
    [periodicTasks |-> {TaskFields(r) : r \in t.periodicTasks},
     intervalSchedules |-> t.intervalSchedules,
     safeMasterCopies |-> t.safeMasterCopies,
     proxyFactories |-> t.proxyFactories]

\* the command is back where it was before its first run, with these tables
Rewound(t) ==
    /\ periodicTasks' = t.periodicTasks
    /\ intervalSchedules' = t.intervalSchedules
    /\ safeMasterCopies' = t.safeMasterCopies
    /\ proxyFactories' = t.proxyFactories
    /\ pre' = t
    /\ nextId' = FirstIds
    /\ schedByCmd' = {}
    /\ pc' = "idle"
    /\ run' = 0
    /\ prevOK' = FALSE
    /\ idx' = 0
    /\ interval_schedule' = None
    /\ periodic_task' = None
    /\ safe_master_copy' = None
    /\ ethereum_network_id' = None
    /\ stdout' = NoOutput
    /\ saves' = NoSaves
    /\ resolved' = <<>>

\* the first run was left alone and completed: what it ended with is kept,
\* and the tables are put back as they were before it
Rewind ==
    /\ pc = "done"
    /\ run = 1
    /\ expected = {}
    /\ expected' = {StoreView(Tables)}
    /\ Rewound(pre)
    /\ UNCHANGED <<decls, scheduler_view, mc_history>>

\* the positions of handle() and its callees at a call of the store
StoreCalls ==
    {"wipe", "schedule", "task", "save", "master_copy", "master_copy_save",
     "proxy_factory"}

\* the store cannot be reached: the call raises before it writes, and the
\* writes made so far stay (every statement is committed on its own)
StoreFails ==
    /\ pc \in StoreCalls
    /\ expected # {}
    /\ Raise
    /\ UNCHANGED <<decls, watch, ethereum_network_id, run, prevOK, pre>>

NextWithFailures ==
    \/ Next
    \/ Rewind
    \/ StoreFails

SpecFailures == Init /\ [][NextWithFailures]_vars

-----------------------------------------------------------------------------
(* The same declarations in another order *)

\* the orders of a list without repetition
Perms(list) == InjSeqs({list[i] : i \in 1..Len(list)}, Len(list))

\* the tables that list, for every network, what table lists in some order
Reordered(table) ==
    {f \in [DOMAIN table -> UNION {Perms(table[n]) : n \in DOMAIN table}] :
        \A n \in DOMAIN table : f[n] \in Perms(table[n])}

\* the first run completed: what it ended with is kept, the tables are put
\* back as they were before it, and the three lists are put in any order
Reorder ==
    /\ pc = "done"
    /\ run = 1
    /\ expected = {}
    /\ expected' = {StoreView(Tables)}
    /\ Rewound(pre)
    /\ TASKS' \in Perms(TASKS)
    /\ MASTER_COPIES' \in Reordered(MASTER_COPIES)
    /\ PROXY_FACTORIES' \in Reordered(PROXY_FACTORIES)
    /\ mc_history' = mc_history \cup {MASTER_COPIES'}
    /\ UNCHANGED <<net_version, scheduler_view>>

NextWithReorder ==
    \/ Next
    \/ Reorder

SpecReorder == Init /\ [][NextWithReorder]_vars

-----------------------------------------------------------------------------
(* The declarations of a later release *)

\* what MASTER_COPIES may be in a release: the table of the source; the first
\* master copy declared as an L2 version; the second declared without the
\* suffix; the first alone, under an older version
ReleasedMasterCopies ==
    {SrcMasterCopies,
     "7001" :> << <<MasterCopy130, 9242, V130L2>>, <<MasterCopy130L2, 9239, V130L2>> >>,
     "7001" :> << <<MasterCopy130, 9242, V130>>, <<MasterCopy130L2, 9239, V130>> >>,
     "7001" :> << <<MasterCopy130, 9242, V120>> >>}

\* between two runs the command is replaced by a release with another table
Redeclare ==
    /\ pc \in {"idle", "done", "error"}
    /\ MASTER_COPIES' \in ReleasedMasterCopies \ {MASTER_COPIES}
    /\ mc_history' = mc_history \cup {MASTER_COPIES'}
    /\ UNCHANGED <<TASKS, PROXY_FACTORIES, net_version, tables, nextId, pc, idx,
                   locals, ethereum_network_id, stdout, saves, run, prevOK, pre,
                   resolved, schedByCmd, scheduler_view, expected>>

NextWithRedeclare ==
    \/ Next
    \/ Redeclare

\* the runs of successive releases, from the empty store
SpecRedeclare == InitFrom(EmptyInputs) /\ [][NextWithRedeclare]_vars

-----------------------------------------------------------------------------
(* Reading the tables *)

\* the task rows of a key
RowsWithKey(name) == {r \in periodicTasks : r.task = name}

Declared == {TASKS[i] : i \in 1..Len(TASKS)}
InNamespace == {d \in Declared : StartsWith(d.name, NS)}
OutOfNamespace == Declared \ InNamespace

\* the task store holds the declaration: one row of its key, with its fields
Reconciled(d) ==
    /\ Cardinality(RowsWithKey(d.name)) = 1
    /\ \A r \in RowsWithKey(d.name) :
        /\ r.name = d.description
        /\ r.enabled = d.enabled
        /\ \E sch \in intervalSchedules :
            /\ sch.id = r.interval
            /\ sch.every = d.interval
            /\ sch.period = d.period

\* a completed run that followed a completed run
SecondRunDone == pc = "done" /\ prevOK

-----------------------------------------------------------------------------
(* The claims *)

\* C1: idempotence of the final store.  When a run completes right after a
\* completed run (same declarations, same network id, nothing else wrote to
\* the store), the task store (key, label, schedule, enabled of every row),
\* the schedule store and both registries are what they were after the first.
C1_Idempotent == SecondRunDone => StoreView(Tables) = StoreView(pre)

\* the second run wiped and recreated tasks, saved a task and a master copy
C1_Witness ==
    /\ SecondRunDone
    /\ stdout.created > 0
    /\ saves.task > 0
    /\ saves.master_copy > 0
    /\ Tables # pre

\* C2 as stated: the second of two successive runs reports no task as created
\* and saves no task and no master copy.
C2_SecondRunCountsZero ==
    SecondRunDone =>
        /\ stdout.created = 0
        /\ saves.task + saves.master_copy = 0

\* the declared master copies of the network whose stored block number was not
\* the declared one when the run started
BlockDrifted ==
    {i \in 1..Len(McList(ethereum_network_id)) :
        LET m == McList(ethereum_network_id)[i]
        IN  pre.safeMasterCopies[m[1]].initial_block_number # m[2]}

\* C2 as amended: on the second of two successive runs every declared task of
\* the namespace is reported as created (the wipe removed it), every other
\* declared task is reported as already created and is saved once, and a
\* master copy is saved exactly when its stored initial block number differs
\* from the declared one.
C2_SecondRunCounts ==
    SecondRunDone =>
        /\ stdout.created = Cardinality(InNamespace)
        /\ stdout.already = Cardinality(OutOfNamespace)
        /\ saves.task = Cardinality(OutOfNamespace)
        /\ saves.master_copy = Cardinality(BlockDrifted)

\* a second run that created both declared tasks again and saved the one
\* master copy whose block number differs
C2_Witness ==
    /\ SecondRunDone
    /\ Len(TASKS) = 2
    /\ stdout.created = 2
    /\ saves.task = 0
    /\ saves.master_copy = 1

\* C3: namespace isolation.  After a completed run every declared task name
\* is the key of exactly one row, which has the declared label, schedule and
\* enabled flag; a row outside the namespace that had the key before the run
\* is that row (same primary key), updated in place.
C3_OneRowPerName ==
    pc = "done" =>
        \A d \in Declared :
            /\ Reconciled(d)
            /\ \A old \in pre.periodicTasks :
                (old.task = d.name /\ ~StartsWith(d.name, NS)) =>
                    \E r \in periodicTasks : r.id = old.id /\ r.task = d.name

\* the old row of the key outside the namespace now has the declared label
C3_Witness ==
    /\ pc = "done"
    /\ Cleanup \in Declared
    /\ OldCleanup \in pre.periodicTasks
    /\ \E r \in periodicTasks : r.id = OldCleanup.id /\ r.name = Cleanup.description

\* C4: recurrence dedup.  In every state, the declarations of the run that
\* have the same (interval, period) got the same schedule row; a schedule row
\* this command created is the only row of its (every, period); and after a
\* completed run the rows of two such declarations reference the same schedule.
C4_ScheduleDedup ==
    /\ \A i, j \in 1..Len(resolved) :
        (TASKS[i].interval = TASKS[j].interval /\ TASKS[i].period = TASKS[j].period)
            => resolved[i] = resolved[j]
    /\ \A a, b \in intervalSchedules :
        (a.id \in schedByCmd /\ a.every = b.every /\ a.period = b.period)
            => a = b
    /\ pc = "done" =>
        \A d, e \in Declared :
            (d.interval = e.interval /\ d.period = e.period) =>
                \A r \in RowsWithKey(d.name), q \in RowsWithKey(e.name) :
                    r.interval = q.interval

\* two declarations with one interval share the row a run of this command made
C4_Witness ==
    /\ SecondRunDone
    /\ {IndexInternalTxs, IndexSafeEvents} \subseteq Declared
    /\ \E r \in RowsWithKey(IndexInternalTxs.name), q \in RowsWithKey(IndexSafeEvents.name) :
        r.interval = q.interval /\ r.interval \in schedByCmd

\* the declared master copies and factories of the resolved network
DeclaredMasterCopies ==
    {MASTER_COPIES[ethereum_network_id][i] :
        i \in 1..Len(IF InMasterCopies(ethereum_network_id)
                     THEN MASTER_COPIES[ethereum_network_id] ELSE <<>>)}
DeclaredFactories ==
    {PROXY_FACTORIES[ethereum_network_id][i] :
        i \in 1..Len(IF InProxyFactories(ethereum_network_id)
                     THEN PROXY_FACTORIES[ethereum_network_id] ELSE <<>>)}

\* C5: drift correction for master copies.  After a completed run, a master
\* copy that was stored with a version other than the declared one has the
\* declared version and the tx_block_number it had before the run, whether or
\* not its initial block number differed too.
C5_VersionCorrected ==
    pc = "done" =>
        \A m \in DeclaredMasterCopies :
            (/\ m[1] \in DOMAIN pre.safeMasterCopies
             /\ pre.safeMasterCopies[m[1]].version # m[3]) =>
                /\ safeMasterCopies[m[1]].version = m[3]
                /\ safeMasterCopies[m[1]].tx_block_number =
                       pre.safeMasterCopies[m[1]].tx_block_number

\* a stored master copy whose version and block number both differed
C5_Witness ==
    /\ pc = "done"
    /\ \E m \in DeclaredMasterCopies :
        /\ m[1] \in DOMAIN pre.safeMasterCopies
        /\ pre.safeMasterCopies[m[1]].version # m[3]
        /\ pre.safeMasterCopies[m[1]].initial_block_number # m[2]
        /\ pre.safeMasterCopies[m[1]].tx_block_number # m[2]
        /\ safeMasterCopies[m[1]].version = m[3]

\* C6: drift correction writes both fields.  After a completed run on a
\* network of the master-copy table every declared master copy is stored with
\* the declared initial block number and the declared version.
C6_BothFieldsCorrected ==
    (pc = "done" /\ InMasterCopies(ethereum_network_id)) =>
        \A m \in DeclaredMasterCopies :
            /\ m[1] \in DOMAIN safeMasterCopies
            /\ safeMasterCopies[m[1]].initial_block_number = m[2]
            /\ safeMasterCopies[m[1]].version = m[3]

\* C7: no drift correction for proxy factories.  In every state of a run, a
\* factory that was stored when the run started is stored as it was, whatever
\* block number the run declares for its address.
C7_FactoryUnchanged ==
    \A a \in DOMAIN pre.proxyFactories :
        /\ a \in DOMAIN proxyFactories
        /\ proxyFactories[a] = pre.proxyFactories[a]

\* a completed run that declared another block number for a stored factory
C7_Witness ==
    /\ pc = "done"
    /\ \E f \in DeclaredFactories :
        /\ f[1] \in DOMAIN pre.proxyFactories
        /\ pre.proxyFactories[f[1]].initial_block_number # f[2]

\* the resolved network id is a key of neither table
Unrecognized ==
    /\ ethereum_network_id # None
    /\ ~InMasterCopies(ethereum_network_id)
    /\ ~InProxyFactories(ethereum_network_id)

\* C8: unrecognized network.  Once the chain client has answered with an id
\* that neither table has, the run goes to the warning and returns: no
\* registry row is created or changed, the warning is written, and the task
\* store holds every declared task and no other row of the namespace.
C8_UnrecognizedNetwork ==
    Unrecognized =>
        /\ pc \in {"warning", "done"}
        /\ safeMasterCopies = pre.safeMasterCopies
        /\ proxyFactories = pre.proxyFactories
        /\ \A d \in Declared : Reconciled(d)
        /\ \A r \in periodicTasks :
            StartsWith(r.task, NS) => \E d \in Declared : d.name = r.task
        /\ pc = "done" => stdout.warning

\* a completed run on an unrecognized network that recreated a task
C8_Witness ==
    /\ Unrecognized
    /\ pc = "done"
    /\ stdout.warning
    /\ stdout.created > 0
    /\ periodicTasks # pre.periodicTasks

\* C9: the warning is written exactly when the network id is a key of neither
\* table; it is not written for an id that only one table has.
C9_WarningIffUnrecognized ==
    pc = "done" => (stdout.warning <=> Unrecognized)

TaskPhase == {"schedule", "task", "save"}
RegistryPhase == {"master_copy", "master_copy_save", "proxy_factory"}

\* all declared tasks have been through create_task in this run
TasksDone == stdout.created + stdout.already = Len(TASKS)

\* no registry row was written in this run
RegistriesUntouched ==
    /\ safeMasterCopies = pre.safeMasterCopies
    /\ proxyFactories = pre.proxyFactories

\* C10 as stated: the network id is resolved before the task reconciliation
\* starts; the registry reconciliation starts only after both and only with
\* a resolved id; no registry write precedes the resolver call.
C10_ResolveThenTasks ==
    /\ pc \in TaskPhase => ethereum_network_id # None
    /\ pc \in RegistryPhase => (ethereum_network_id # None /\ TasksDone)
    /\ ethereum_network_id = None => RegistriesUntouched

\* C10 as amended: the task reconciliation runs first and unconditionally,
\* the network id is resolved only after the last task; the registry
\* reconciliation starts only after both and only with a resolved id; no
\* registry write precedes the resolver call.
C10_TasksThenResolve ==
    /\ pc \in TaskPhase \cup {"wipe"} => ethereum_network_id = None
    /\ pc = "resolve" => (ethereum_network_id = None /\ TasksDone)
    /\ pc \in RegistryPhase \cup {"warning", "done"} =>
        (ethereum_network_id # None /\ TasksDone)
    /\ ethereum_network_id = None => RegistriesUntouched

\* the registry reconciliation is writing, after the tasks and the resolver
C10_Witness ==
    /\ pc = "master_copy_save"
    /\ ethereum_network_id # None
    /\ Len(TASKS) > 0
    /\ TasksDone
    /\ safeMasterCopies # pre.safeMasterCopies

\* no row of the namespace is left that no declaration names
NoStaleTask ==
    \A r \in periodicTasks :
        StartsWith(r.task, NS) => \E d \in Declared : d.name = r.task

\* C11: resolver failure is fatal for the registry step only.  When the call
\* of the chain client fails, the run ends in the error with no registry row
\* created or changed, and the task store holds every declared task and no
\* other row of the namespace.
C11_ResolverFailure ==
    [][(pc = "resolve" /\ pc' = "error") =>
        /\ RegistriesUntouched'
        /\ ethereum_network_id' = None
        /\ \A d \in Declared : Reconciled(d)'
        /\ NoStaleTask']_vars

\* the run ended in the error after the last task: the chain client failed
C11_Witness ==
    /\ pc = "error"
    /\ TasksDone
    /\ stdout.created > 0
    /\ periodicTasks # pre.periodicTasks
    /\ RegistriesUntouched

\* what a scheduler gets of the first k declarations, once they are stored
DeclaredRows(k) ==
    {[task |-> TASKS[i].name, name |-> TASKS[i].description,
      enabled |-> TASKS[i].enabled] :
        i \in {j \in 1..k : StartsWith(TASKS[j].name, NS)}}

\* the scheduler read during this run (or since the last run ended)
ReadInRun == scheduler_view.run = run

\* C12 as stated: a scheduler that reads the task store during the run sees
\* the complete set of tasks of the namespace of before the run or the
\* complete set of after the run, never an empty or partly recreated set.
C12_AtomicReplace ==
    ReadInRun =>
        \/ scheduler_view.rows = SchedulerRows(pre.periodicTasks)
        \/ scheduler_view.rows = DeclaredRows(Len(TASKS))

\* C12 as amended: a scheduler that reads before the wipe sees the set of
\* before the run; one that reads between the wipe and the last declared task
\* sees exactly the tasks of the namespace among the declarations handled so
\* far (none right after the wipe); one that reads after the last declared
\* task sees the complete set of after the run.
C12_PrefixVisible ==
    ReadInRun =>
        /\ scheduler_view.pc \in {"idle", "wipe"} =>
            scheduler_view.rows = SchedulerRows(pre.periodicTasks)
        /\ scheduler_view.pc \in TaskPhase \cup {"error"} =>
            \E k \in 0..Len(TASKS) : scheduler_view.rows = DeclaredRows(k)
        /\ scheduler_view.pc \in RegistryPhase \cup {"resolve", "warning", "done"} =>
            scheduler_view.rows = DeclaredRows(Len(TASKS))

\* the scheduler read after the wipe and found no task, although there were
\* tasks before the run and there will be after it
C12_Witness ==
    /\ ReadInRun
    /\ scheduler_view.pc = "schedule"
    /\ scheduler_view.rows = {}
    /\ SchedulerRows(pre.periodicTasks) # {}
    /\ DeclaredRows(Len(TASKS)) # {}

\* C13: self-correction after a failure.  A run that completes after a run
\* that was cut short at a store call or at the chain client (after the wipe,
\* between two tasks, between a get_or_create and its save, between the two
\* registry loops) ends with the stores that the same run, left alone, ends
\* with from the original stores.
C13_SelfCorrects ==
    (pc = "done" /\ expected # {}) => StoreView(Tables) \in expected

\* a run completed after a run that failed between the two registry loops
C13_Witness ==
    /\ pc = "done"
    /\ expected # {}
    /\ run = 2
    /\ ~prevOK
    /\ MasterCopy130L2 \in DOMAIN pre.safeMasterCopies
    /\ Factory130 \notin DOMAIN pre.proxyFactories
    /\ Factory130 \in DOMAIN proxyFactories
    /\ pre.periodicTasks # periodicTasks

\* C14: full replace leaves no stale task.  After a completed run the stored
\* keys of the namespace are the declared names of the namespace, and each of
\* them has one row with the declared label, the schedule of the declared
\* interval and the declared enabled flag, whatever rows of the namespace
\* were stored before.
C14_FullReplace ==
    pc = "done" =>
        /\ {r.task : r \in {q \in periodicTasks : StartsWith(q.task, NS)}}
             = {d.name : d \in InNamespace}
        /\ \A d \in InNamespace : Reconciled(d)

\* a completed run over a removed task and a task with another interval
C14_Witness ==
    /\ pc = "done"
    /\ RemovedTask \in pre.periodicTasks
    /\ StaleInternalTxs \in pre.periodicTasks
    /\ IndexInternalTxs \in InNamespace
    /\ RemovedTask \notin periodicTasks
    /\ StaleInternalTxs \notin periodicTasks

\* the (every, period) pairs the declarations ask for
DeclaredIntervals == {<<d.interval, d.period>> : d \in Declared}

\* C15: every declared task of the namespace is reported as created, never as
\* already created, in every run: the branch that reports "already created"
\* is entered for no task of the namespace, and a completed run has counted
\* every task of the namespace as created.  A completed run from an empty
\* store leaves one schedule for each distinct declared (every, period), one
\* task row for each declaration, and has reported every task as created.
C15_AlwaysCreated ==
    /\ pc = "save" => ~StartsWith(TASKS[idx].name, NS)
    /\ pc = "done" =>
        /\ stdout.created >= Cardinality(InNamespace)
        /\ stdout.already <= Cardinality(OutOfNamespace)
    /\ (pc = "done" /\ pre.periodicTasks = {} /\ pre.intervalSchedules = {}) =>
        /\ Cardinality(intervalSchedules) = Cardinality(DeclaredIntervals)
        /\ \A p \in DeclaredIntervals :
            \E sch \in intervalSchedules : sch.every = p[1] /\ sch.period = p[2]
        /\ Cardinality(periodicTasks) = Len(TASKS)
        /\ \A d \in Declared : Reconciled(d)
        /\ stdout.created = Len(TASKS)
        /\ stdout.already = 0

\* a completed run over a stored row of a declared task of the namespace
C15_Witness ==
    /\ pc = "done"
    /\ StaleInternalTxs \in pre.periodicTasks
    /\ TASKS = <<IndexInternalTxs, Cleanup>>
    /\ OldCleanup \in pre.periodicTasks
    /\ stdout.created = 1
    /\ stdout.already = 1

\* a completed run from the empty store: two tasks on one schedule
C15_EmptyWitness ==
    /\ pc = "done"
    /\ pre.periodicTasks = {}
    /\ pre.intervalSchedules = {}
    /\ TASKS = <<IndexInternalTxs, IndexSafeEvents>>
    /\ Cardinality(intervalSchedules) = 1
    /\ stdout.created = 2

\* C16: isL2 is left unchanged by drift correction.  A master copy that was
\* stored before the run keeps the L2 flag it had before the run in every
\* state of the run, also when the run corrects its version or block and the
\* declared version gains or loses the "+L2" suffix.
C16_L2Unchanged ==
    \A a \in DOMAIN pre.safeMasterCopies :
        /\ a \in DOMAIN safeMasterCopies
        /\ safeMasterCopies[a].l2 = pre.safeMasterCopies[a].l2

\* the declared version gained the suffix: the version is corrected, the
\* flag is not
C16_Witness ==
    /\ pc = "done"
    /\ MasterCopy130L2 \in DOMAIN pre.safeMasterCopies
    /\ pre.safeMasterCopies[MasterCopy130L2].version = V130
    /\ safeMasterCopies[MasterCopy130L2].version = V130L2
    /\ ~safeMasterCopies[MasterCopy130L2].l2

\* the declared version lost the suffix: the flag stays set
C16_WitnessLost ==
    /\ pc = "done"
    /\ MasterCopy130 \in DOMAIN pre.safeMasterCopies
    /\ pre.safeMasterCopies[MasterCopy130].version = V130L2
    /\ safeMasterCopies[MasterCopy130].version = V130
    /\ safeMasterCopies[MasterCopy130].l2

\* C17: creation defaults.  A row of a registry that was not stored before the
\* run is the row of a declared address of the resolved network and holds the
\* defaults: initial_block_number = tx_block_number = the declared block, and
\* for a master copy the declared version and l2 = (the declared version ends
\* with "+L2").  A completed run has stored every declared address.  The save
\* of a master copy is reached only for an address stored before the run.
C17_CreationDefaults ==
    /\ \A a \in DOMAIN safeMasterCopies \ DOMAIN pre.safeMasterCopies :
        \E m \in DeclaredMasterCopies :
            /\ m[1] = a
            /\ safeMasterCopies[a] =
                   MasterCopyRow(m[2], m[2], m[3], EndsWith(m[3], L2Suffix))
    /\ \A a \in DOMAIN proxyFactories \ DOMAIN pre.proxyFactories :
        \E f \in DeclaredFactories :
            /\ f[1] = a
            /\ proxyFactories[a] = FactoryRow(f[2], f[2])
    /\ pc = "done" =>
        /\ \A m \in DeclaredMasterCopies : m[1] \in DOMAIN safeMasterCopies
        /\ \A f \in DeclaredFactories : f[1] \in DOMAIN proxyFactories
    /\ pc = "master_copy_save" =>
        MASTER_COPIES[ethereum_network_id][idx][1] \in DOMAIN pre.safeMasterCopies

\* a completed run that created the L2 master copy and the factory, and
\* saved no master copy
C17_Witness ==
    /\ pc = "done"
    /\ MasterCopy130L2 \notin DOMAIN pre.safeMasterCopies
    /\ Factory130 \notin DOMAIN pre.proxyFactories
    /\ safeMasterCopies[MasterCopy130L2] = MasterCopyRow(9239, 9239, V130L2, TRUE)
    /\ proxyFactories[Factory130] = FactoryRow(9223, 9223)
    /\ saves.master_copy = 0

\* the tasks and schedules of a store without the primary keys the store
\* hands out: every task with the (every, period) of its schedule, and the
\* number of schedule rows of every (every, period)
Keyless(v) ==
    [tasks |->
        {[task |-> r.task, name |-> r.name, enabled |-> r.enabled,
          schedule |-> {<<sch.every, sch.period>> :
                          sch \in {q \in v.intervalSchedules : q.id = r.interval}}] :
            r \in v.periodicTasks},
     schedules |->
        {<<sch.every, sch.period,
           Cardinality({q \in v.intervalSchedules :
                           q.every = sch.every /\ q.period = sch.period})>> :
            sch \in v.intervalSchedules}]

\* a run over reordered lists has ended, after the run over the lists as given
ReorderedRunOver == pc \in {"done", "error"} /\ expected # {} /\ run = 1

C18_WitnessAbort ==
    /\ ReorderedRunOver
    /\ pc = "error"
    /\ TASKS = <<IndexSafeEvents, Cleanup>>
    /\ DupCleanup \in periodicTasks
    /\ RowsWithKey(IndexSafeEvents.name) = {}

\* the addresses the two tables declare for the network of the chain client
McAddresses ==
    IF net_version \in DOMAIN MASTER_COPIES
    THEN {MASTER_COPIES[net_version][i][1] :
            i \in 1..Len(MASTER_COPIES[net_version])}
    ELSE {}
PfAddresses ==
    IF net_version \in DOMAIN PROXY_FACTORIES
    THEN {PROXY_FACTORIES[net_version][i][1] :
            i \in 1..Len(PROXY_FACTORIES[net_version])}
    ELSE {}

\* C19: nothing outside the owned namespace is removed.  No step of any run
\* removes or changes a schedule row, removes a master copy or a proxy
\* factory, changes the row of an address the tables do not declare for the
\* resolved network, or removes or changes a task row whose key neither
\* starts with the namespace prefix nor is a declared name.
C19_NothingElseRemoved ==
    [][/\ intervalSchedules \subseteq intervalSchedules'
       /\ DOMAIN safeMasterCopies \subseteq DOMAIN safeMasterCopies'
       /\ DOMAIN proxyFactories \subseteq DOMAIN proxyFactories'
       /\ \A a \in DOMAIN safeMasterCopies \ McAddresses :
            safeMasterCopies'[a] = safeMasterCopies[a]
       /\ \A a \in DOMAIN proxyFactories \ PfAddresses :
            proxyFactories'[a] = proxyFactories[a]
       /\ \A r \in periodicTasks :
            (~StartsWith(r.task, NS) /\ \A d \in Declared : d.name # r.task)
                => r \in periodicTasks']_vars

\* a completed run that removed and changed rows of its own, beside a task
\* of another application, an old schedule and an undeclared master copy
C19_Witness ==
    /\ pc = "done"
    /\ RemovedTask \in pre.periodicTasks
    /\ RemovedTask \notin periodicTasks
    /\ pre.safeMasterCopies[MasterCopy130].version = V120
    /\ ReportTask \in periodicTasks
    /\ OldSchedule \in intervalSchedules
    /\ safeMasterCopies[MasterCopy111] = MasterCopy111Row
    /\ safeMasterCopies[MasterCopy130].version = V130
    /\ Cardinality(intervalSchedules) > 1

\* whether the versions declared for an address, in the tables the runs have
\* had, end with "+L2"
DeclaredSuffixes(a) ==
    UNION {UNION {{EndsWith(t[n][i][3], L2Suffix) :
                      i \in {j \in 1..Len(t[n]) : t[n][j][1] = a}} :
                  n \in DOMAIN t} :
           t \in mc_history}

\* C20 as stated: after every completed run, from an empty master-copy store
\* and with declarations that change between runs, the L2 flag of every
\* stored master copy says whether its stored version ends with "+L2".
C20_L2MatchesVersion ==
    pc = "done" =>
        \A a \in DOMAIN safeMasterCopies :
            safeMasterCopies[a].l2 = EndsWith(safeMasterCopies[a].version, L2Suffix)

\* C20: the L2 flag.  From an empty master-copy store and with declarations
\* that change between runs, after every completed run the L2 flag of a
\* stored master copy says whether its stored version ends with "+L2", for
\* every master copy whose declared version never gained or lost the suffix.
C20_L2MatchesUnlessRedeclared ==
    pc = "done" =>
        \A a \in DOMAIN safeMasterCopies :
            Cardinality(DeclaredSuffixes(a)) <= 1 =>
                safeMasterCopies[a].l2
                    = EndsWith(safeMasterCopies[a].version, L2Suffix)

\* a second completed run, of a release that declares the first master copy
\* under another version without the suffix: the version is corrected
C20_Witness ==
    /\ pc = "done"
    /\ run = 2
    /\ Cardinality(mc_history) > 1
    /\ MasterCopy130 \in DOMAIN safeMasterCopies
    /\ safeMasterCopies[MasterCopy130].version = V120
    /\ ~safeMasterCopies[MasterCopy130].l2
    /\ MasterCopy130L2 \in DOMAIN safeMasterCopies
    /\ safeMasterCopies[MasterCopy130L2].l2
    /\ saves.master_copy = 1

\* a second completed run, of a release that declares the first master copy
\* as an L2 version: the version has the suffix, the flag is not set
C20_WitnessGained ==
    /\ pc = "done"
    /\ run = 2
    /\ MasterCopy130 \in DOMAIN safeMasterCopies
    /\ safeMasterCopies[MasterCopy130].version = V130L2
    /\ ~safeMasterCopies[MasterCopy130].l2

=============================================================================
